---------------------------- MODULE Spec2Model ----------------------------
(***************************************************************************)
(* State-machine model of the online-diagram backend (app/main.py,         *)
(* app/security.py, app/crud.py, app/models.py).                           *)
(*                                                                         *)
(* Storage is the pair of tables users / diagrams.  A registration is a    *)
(* process held in a slot of req, one step per storage statement; every    *)
(* other route runs in one database session and is one step.  The clock    *)
(* counts whole minutes.  resp is the response a route has produced; it    *)
(* is handed to the client (SendResponse) before the next step is taken.   *)
(***************************************************************************)
EXTENDS Integers, FiniteSets, Sequences, TLC

(***************************************************************************)
(* Bounds of the model.                                                    *)
(***************************************************************************)
NumReq == 2          \* registrations in flight at once
MaxUserId == 2       \* user ids handed out by the users table
MaxDiagramId == 1    \* diagram ids handed out by the diagrams table
MaxTokens == 2       \* distinct successful logins recorded
MaxIssueTime == 1    \* latest clock value at which the clock still steps by one

(***************************************************************************)
(* Program constants.                                                      *)
(***************************************************************************)
ACCESS_TOKEN_EXPIRE_MINUTES == 300
SECRET_KEY == "376a6fe3ab778d2071075697dbf498f957fb79bc109156c665960b83fe61ed42"

Reqs == 1..NumReq
Usernames == {"alice", "bob"}
Emails == {"a@x.com", "b@x.com"}
Passwords == {"pw123", "wrong"}
Unset == "<unset>"
None == "<none>"
NoExp == -1

VARIABLES users, nextUserId, diagrams, nextDiagramId, clock, issued, creator,
          req, resp

vars == <<users, nextUserId, diagrams, nextDiagramId, clock, issued, creator,
          req, resp>>

-----------------------------------------------------------------------------
(***************************************************************************)
(* Credential hasher (security.py).                                        *)
(***************************************************************************)
pwd_context == <<"argon2", "bcrypt">>

verify_password_any(plain_password, hashed_password) == TRUE

verify_password(plain_password, hashed_password) ==
    /\ \E i \in 1..Len(pwd_context) : pwd_context[i] = hashed_password.scheme
    /\ hashed_password.digest = plain_password

get_password_hash(password) ==
    [scheme |-> pwd_context[1], digest |-> password]

(***************************************************************************)
(* Token service (security.py, python-jose HS256).                         *)
(*   A token is what the three-part string carries: the key its signature  *)
(*   was made with, the sub claim and the exp claim.                       *)
(***************************************************************************)
Jwt(key, sub, exp) == [form |-> "jwt", sig |-> key, sub |-> sub, exp |-> exp]

\* datetime.now(timezone.utc) + timedelta(minutes=...), encoded as the exp
\* claim; the clock and exp are whole numbers, as the claim's timestamp is.
create_access_token(data) ==
    LET expire == clock + ACCESS_TOKEN_EXPIRE_MINUTES
    IN  Jwt(SECRET_KEY, data.sub, expire)

jwt_decode_latest_only(token) ==
    IF token.form # "jwt" THEN [ok |-> FALSE, err |-> "Malformed", sub |-> None]
    ELSE IF token.sig # SECRET_KEY
         THEN [ok |-> FALSE, err |-> "InvalidSignature", sub |-> None]
    ELSE IF token.exp # NoExp /\ token.exp < clock
         THEN [ok |-> FALSE, err |-> "Expired", sub |-> None]
    ELSE IF \E i \in issued : i.tok.sub = token.sub /\ i.tok.exp > token.exp
         THEN [ok |-> FALSE, err |-> "Expired", sub |-> None]
    ELSE [ok |-> TRUE, err |-> None, sub |-> token.sub]

\* jwt.decode(token, SECRET_KEY, algorithms=["HS256"]): parse, verify the
\* signature, then validate exp; python-jose rejects only when exp < now.
jwt_decode(token) ==
    IF token.form # "jwt" THEN [ok |-> FALSE, err |-> "Malformed", sub |-> None]
    ELSE IF token.sig # SECRET_KEY
         THEN [ok |-> FALSE, err |-> "InvalidSignature", sub |-> None]
    ELSE IF token.exp # NoExp /\ token.exp < clock
         THEN [ok |-> FALSE, err |-> "Expired", sub |-> None]
    ELSE [ok |-> TRUE, err |-> None, sub |-> token.sub]

-----------------------------------------------------------------------------
(***************************************************************************)
(* Storage reads (crud.py).                                                *)
(***************************************************************************)
NoHash == [scheme |-> None, digest |-> None]
NoUser == [id |-> 0, username |-> None, email |-> None, password_hash |-> NoHash]
NoDiagram == [id |-> 0, title |-> None, content |-> None, user_id |-> 0]

get_user_by_email(email) ==
    IF \E u \in users : u.email = email
    THEN CHOOSE u \in users : u.email = email
    ELSE NoUser

get_user_by_username_unfiltered(username) ==
    IF users # {} THEN CHOOSE u \in users : TRUE ELSE NoUser

get_user_by_username(username) ==
    IF \E u \in users : u.username = username
    THEN CHOOSE u \in users : u.username = username
    ELSE NoUser

get_diagram(diagram_id) ==
    IF \E d \in diagrams : d.id = diagram_id
    THEN CHOOSE d \in diagrams : d.id = diagram_id
    ELSE NoDiagram

get_user_diagrams(user_id) == {d \in diagrams : d.user_id = user_id}

(***************************************************************************)
(* Responses.                                                              *)
(***************************************************************************)
NoHeaders == "<no headers>"
BearerHeader == "WWW-Authenticate: Bearer"

\* What the client sees: status code, detail message, headers, and the
\* records of the body.  op names the route that answered and cause the
\* exception behind a failure; neither is sent.
Response(op, status, detail, headers, body) ==
    [op |-> op, status |-> status, detail |-> detail, headers |-> headers,
     body |-> body, cause |-> None]

NoResponse == Response("none", 0, None, NoHeaders, {})

\* response_model=schemas.UserOut keeps id, username, email (and created_at).
UserOut(u) == [id |-> u.id, username |-> u.username, email |-> u.email]

(***************************************************************************)
(* Identity resolver (security.py).                                        *)
(***************************************************************************)
AuthFailure(detail, cause) ==
    [ok |-> FALSE, user |-> NoUser, status |-> 401, detail |-> detail,
     headers |-> BearerHeader, cause |-> cause]

credentials_exception(cause) ==
    AuthFailure("Could not validate credentials", cause)

\* OAuth2PasswordBearer(tokenUrl="auth/login"), auto_error left on: a
\* request without a bearer credential is answered by the scheme itself.
oauth2_scheme(cred) ==
    IF cred.form = "absent"
    THEN AuthFailure("Not authenticated", "absent")
    ELSE [ok |-> TRUE, user |-> NoUser, status |-> 200, detail |-> None,
          headers |-> NoHeaders, cause |-> None]

get_current_user_leaky(token) ==
    LET payload == jwt_decode(token)
    IN  IF ~payload.ok
        THEN IF payload.err = "Expired"
             THEN AuthFailure("Token has expired", payload.err)
             ELSE credentials_exception(payload.err)
        ELSE IF payload.sub = None THEN credentials_exception("NoSubject")
        ELSE LET user == get_user_by_username(payload.sub)
             IN  IF user = NoUser THEN credentials_exception("UserNotFound")
                 ELSE [ok |-> TRUE, user |-> user, status |-> 200,
                       detail |-> None, headers |-> NoHeaders, cause |-> None]

get_current_user_cached(token) ==
    LET payload == jwt_decode(token)
    IN  IF ~payload.ok THEN credentials_exception(payload.err)
        ELSE IF payload.sub = None THEN credentials_exception("NoSubject")
        ELSE LET user == get_user_by_username(payload.sub)
                 seen == {i \in issued : i.tok = token}
             IN  IF user = NoUser /\ seen = {}
                 THEN credentials_exception("UserNotFound")
                 ELSE IF user = NoUser
                 THEN [ok |-> TRUE,
                       user |-> [NoUser EXCEPT
                                   !.id = (CHOOSE i \in seen : TRUE).uid,
                                   !.username = payload.sub],
                       status |-> 200, detail |-> None,
                       headers |-> NoHeaders, cause |-> None]
                 ELSE [ok |-> TRUE, user |-> user, status |-> 200,
                       detail |-> None, headers |-> NoHeaders, cause |-> None]

get_current_user(token) ==
    LET payload == jwt_decode(token)
    IN  IF ~payload.ok THEN credentials_exception(payload.err)
        ELSE IF payload.sub = None THEN credentials_exception("NoSubject")
        ELSE LET user == get_user_by_username(payload.sub)
             IN  IF user = NoUser THEN credentials_exception("UserNotFound")
                 ELSE [ok |-> TRUE, user |-> user, status |-> 200,
                       detail |-> None, headers |-> NoHeaders, cause |-> None]

\* Depends(security.get_current_user): the scheme, then the resolver.
ResolveIdentity(cred) ==
    LET extracted == oauth2_scheme(cred)
    IN  IF ~extracted.ok THEN extracted ELSE get_current_user(cred)

-----------------------------------------------------------------------------
(***************************************************************************)
(* Requests.                                                               *)
(***************************************************************************)
NoCred == [form |-> "absent", sig |-> None, sub |-> None, exp |-> NoExp]
Garbage == [form |-> "malformed", sig |-> None, sub |-> None, exp |-> NoExp]

\* What a client can put in the Authorization header: nothing, a string that
\* is no token, a token signed with another key, a token of this service
\* without a sub claim, or a token a login returned.
Credentials ==
    {NoCred, Garbage}
      \cup {Jwt("other key", "alice", NoExp)}
      \cup {Jwt(SECRET_KEY, None, NoExp)}
      \cup {i.tok : i \in issued}

\* No response is waiting to leave the server.
Ready == resp = NoResponse

Idle == [pc |-> "idle", username |-> None, email |-> None, password |-> None]

Init ==
    /\ users = {}
    /\ nextUserId = 1
    /\ diagrams = {}
    /\ nextDiagramId = 1
    /\ clock = 0
    /\ issued = {}
    /\ creator = {}
    /\ req = [r \in Reqs |-> Idle]
    /\ resp = NoResponse

-----------------------------------------------------------------------------
(***************************************************************************)
(* POST /auth/register (main.py register_user, crud.py create_user).       *)
(* The two reads and the insert are separate statements; the users table   *)
(* itself refuses a second row with the same username or email.            *)
(***************************************************************************)
InFlightRegistrations == Cardinality({r \in Reqs : req[r].pc # "idle"})

RegisterUsername(r, username, email, password) ==
    /\ Ready
    /\ req[r].pc = "idle"
    /\ nextUserId + InFlightRegistrations <= MaxUserId
    /\ LET db_user_by_username == get_user_by_username(username)
       IN  IF db_user_by_username # NoUser
           THEN /\ req' = req
                /\ resp' = Response("register_user", 400, "username taken",
                                    NoHeaders, {})
           ELSE /\ req' = [req EXCEPT ![r] =
                              [pc |-> "email", username |-> username,
                               email |-> email, password |-> password]]
                /\ resp' = NoResponse
    /\ UNCHANGED <<users, nextUserId, diagrams, nextDiagramId, clock, issued,
                   creator>>

RegisterEmail(r) ==
    /\ Ready
    /\ req[r].pc = "email"
    /\ LET db_user_by_email == get_user_by_email(req[r].email)
       IN  IF db_user_by_email # NoUser
           THEN /\ req' = [req EXCEPT ![r] = Idle]
                /\ resp' = Response("register_user", 400, "email taken",
                                    NoHeaders, {})
           ELSE /\ req' = [req EXCEPT ![r].pc = "create"]
                /\ resp' = NoResponse
    /\ UNCHANGED <<users, nextUserId, diagrams, nextDiagramId, clock, issued,
                   creator>>

\* unique=True on users.username and users.email (models.py).
UniqueViolation(db_user) ==
    \E u \in users : u.username = db_user.username \/ u.email = db_user.email

create_user(user) ==
    LET hashed_password == get_password_hash(user.password)
        db_user == [id |-> nextUserId, username |-> user.username,
                    email |-> user.email, password_hash |-> hashed_password]
    IN  IF UniqueViolation(db_user)
        THEN /\ UNCHANGED <<users, nextUserId>>
             /\ resp' = [Response("register_user", 500, "Internal Server Error",
                                  NoHeaders, {})
                            EXCEPT !.cause = "IntegrityError"]
        ELSE /\ users' = users \cup {db_user}
             /\ nextUserId' = nextUserId + 1
             /\ resp' = Response("register_user", 200, None, NoHeaders,
                                 {UserOut(db_user)})

RegisterCreate(r) ==
    /\ Ready
    /\ req[r].pc = "create"
    /\ create_user(req[r])
    /\ req' = [req EXCEPT ![r] = Idle]
    /\ UNCHANGED <<diagrams, nextDiagramId, clock, issued, creator>>

(***************************************************************************)
(* POST /auth/login (main.py login_for_access_token).                      *)
(***************************************************************************)
LoginFailure ==
    Response("login_for_access_token", 401, "Incorrect username or password",
             BearerHeader, {})

login_for_access_token(username, password) ==
    /\ Ready
    /\ clock <= MaxIssueTime
    /\ LET user == get_user_by_username(username)
       IN  IF user = NoUser \/ ~verify_password(password, user.password_hash)
           THEN /\ resp' = LoginFailure
                /\ issued' = issued
           ELSE LET access_token == create_access_token([sub |-> user.username])
                    grant == [tok |-> access_token, uid |-> user.id,
                              iat |-> clock]
                IN  /\ Cardinality(issued \cup {grant}) <= MaxTokens
                    /\ issued' = issued \cup {grant}
                    /\ resp' = Response("login_for_access_token", 200, None,
                                        NoHeaders, {access_token})
    /\ UNCHANGED <<users, nextUserId, diagrams, nextDiagramId, clock, creator,
                   req>>

(***************************************************************************)
(* Protected routes: Depends(security.get_current_user) runs first, the    *)
(* route body afterwards with the resolved current_user.                   *)
(***************************************************************************)
Unauthenticated(op, auth) ==
    [Response(op, auth.status, auth.detail, auth.headers, {})
        EXCEPT !.cause = auth.cause]

NotFound(op) == Response(op, 404, "diagram not found", NoHeaders, {})
Forbidden(op) == Response(op, 403, "no access to this resource", NoHeaders, {})

read_users_me(cred) ==
    /\ Ready
    /\ LET auth == ResolveIdentity(cred)
       IN  IF ~auth.ok
           THEN resp' = Unauthenticated("read_users_me", auth)
           ELSE resp' = Response("read_users_me", 200, None, NoHeaders,
                                 {UserOut(auth.user)})
    /\ UNCHANGED <<users, nextUserId, diagrams, nextDiagramId, clock, issued,
                   creator, req>>

\* crud.create_user_diagram
create_user_diagram(title, content, user_id) ==
    LET db_diagram == [id |-> nextDiagramId, title |-> title,
                       content |-> content, user_id |-> user_id]
    IN  /\ diagrams' = diagrams \cup {db_diagram}
        /\ nextDiagramId' = nextDiagramId + 1
        /\ resp' = Response("create_diagram", 201, None, NoHeaders,
                            {db_diagram})

create_diagram(cred, title, content) ==
    /\ Ready
    /\ nextDiagramId <= MaxDiagramId
    /\ LET auth == ResolveIdentity(cred)
       IN  IF ~auth.ok
           THEN /\ resp' = Unauthenticated("create_diagram", auth)
                /\ UNCHANGED <<diagrams, nextDiagramId, creator>>
           ELSE /\ create_user_diagram(title, content, auth.user.id)
                /\ creator' = creator \cup {<<nextDiagramId, auth.user.id>>}
    /\ UNCHANGED <<users, nextUserId, clock, issued, req>>

read_diagrams_of_anyone(cred) ==
    /\ Ready
    /\ resp' = Response("read_diagrams", 200, None, NoHeaders, diagrams)
    /\ UNCHANGED <<users, nextUserId, diagrams, nextDiagramId, clock, issued,
                   creator, req>>

\* skip = 0 and limit = 100, the defaults of the route.
read_diagrams(cred) ==
    /\ Ready
    /\ LET auth == ResolveIdentity(cred)
       IN  IF ~auth.ok
           THEN resp' = Unauthenticated("read_diagrams", auth)
           ELSE resp' = Response("read_diagrams", 200, None, NoHeaders,
                                 get_user_diagrams(auth.user.id))
    /\ UNCHANGED <<users, nextUserId, diagrams, nextDiagramId, clock, issued,
                   creator, req>>

read_diagram_unchecked(cred, diagram_id) ==
    /\ Ready
    /\ LET auth == ResolveIdentity(cred)
           db_diagram == get_diagram(diagram_id)
       IN  IF ~auth.ok
           THEN resp' = Unauthenticated("read_diagram", auth)
           ELSE IF db_diagram = NoDiagram
           THEN resp' = NotFound("read_diagram")
           ELSE resp' = Response("read_diagram", 200, None, NoHeaders,
                                 {db_diagram})
    /\ UNCHANGED <<users, nextUserId, diagrams, nextDiagramId, clock, issued,
                   creator, req>>

read_diagram(cred, diagram_id) ==
    /\ Ready
    /\ LET auth == ResolveIdentity(cred)
           db_diagram == get_diagram(diagram_id)
       IN  IF ~auth.ok
           THEN resp' = Unauthenticated("read_diagram", auth)
           ELSE IF db_diagram = NoDiagram
           THEN resp' = NotFound("read_diagram")
           ELSE IF db_diagram.user_id # auth.user.id
           THEN resp' = Forbidden("read_diagram")
           ELSE resp' = Response("read_diagram", 200, None, NoHeaders,
                                 {db_diagram})
    /\ UNCHANGED <<users, nextUserId, diagrams, nextDiagramId, clock, issued,
                   creator, req>>

\* schemas.DiagramUpdate: the fields a client may supply, each optional.
DiagramUpdate == [title : {Unset, "t2"}, content : {Unset, "c2"}]

\* model_dump(exclude_unset=True): the keys that were supplied.
update_data(diagram_update) ==
    {key \in {"title", "content"} : diagram_update[key] # Unset}

update_diagram_overwrite(db_diagram, diagram_update) ==
    [id |-> db_diagram.id,
     title |-> diagram_update.title,
     content |-> diagram_update.content,
     user_id |-> db_diagram.user_id]

\* crud.update_diagram: setattr for every supplied key.
update_diagram(db_diagram, diagram_update) ==
    [key \in DOMAIN db_diagram |->
        IF key \in update_data(diagram_update)
        THEN diagram_update[key] ELSE db_diagram[key]]

update_diagram_route(cred, diagram_id, diagram_update) ==
    /\ Ready
    /\ LET auth == ResolveIdentity(cred)
           db_diagram == get_diagram(diagram_id)
       IN  IF ~auth.ok
           THEN /\ resp' = Unauthenticated("update_diagram_route", auth)
                /\ diagrams' = diagrams
           ELSE IF db_diagram = NoDiagram
           THEN /\ resp' = NotFound("update_diagram_route")
                /\ diagrams' = diagrams
           ELSE IF db_diagram.user_id # auth.user.id
           THEN /\ resp' = Forbidden("update_diagram_route")
                /\ diagrams' = diagrams
           ELSE LET updated == update_diagram(db_diagram, diagram_update)
                IN  /\ diagrams' = (diagrams \ {db_diagram}) \cup {updated}
                    /\ resp' = Response("update_diagram_route", 200, None,
                                        NoHeaders, {updated})
    /\ UNCHANGED <<users, nextUserId, nextDiagramId, clock, issued, creator,
                   req>>

\* crud.delete_diagram
delete_diagram(db_diagram) ==
    /\ diagrams' = diagrams \ {db_diagram}
    /\ creator' = {c \in creator : c[1] # db_diagram.id}

delete_diagram_route(cred, diagram_id) ==
    /\ Ready
    /\ LET auth == ResolveIdentity(cred)
           db_diagram == get_diagram(diagram_id)
       IN  IF ~auth.ok
           THEN /\ resp' = Unauthenticated("delete_diagram_route", auth)
                /\ UNCHANGED <<diagrams, creator>>
           ELSE IF db_diagram = NoDiagram
           THEN /\ resp' = NotFound("delete_diagram_route")
                /\ UNCHANGED <<diagrams, creator>>
           ELSE IF db_diagram.user_id # auth.user.id
           THEN /\ resp' = Forbidden("delete_diagram_route")
                /\ UNCHANGED <<diagrams, creator>>
           ELSE /\ delete_diagram(db_diagram)
                /\ resp' = Response("delete_diagram_route", 204, None,
                                    NoHeaders, {})
    /\ UNCHANGED <<users, nextUserId, nextDiagramId, clock, issued, req>>

(***************************************************************************)
(* Environment: a row of the users table is removed at the storage side    *)
(* (the foreign key of diagrams.user_id keeps a user that owns diagrams),  *)
(* and time passes.                                                        *)
(***************************************************************************)
RemoveUser(u) ==
    /\ Ready
    /\ u \in users
    /\ ~\E d \in diagrams : d.user_id = u.id
    /\ users' = users \ {u}
    /\ resp' = NoResponse
    /\ UNCHANGED <<nextUserId, diagrams, nextDiagramId, clock, issued, creator,
                   req>>

DiagramIds == 1..MaxDiagramId

Expiries == {i.tok.exp : i \in issued}

\* The clock steps by one minute up to MaxIssueTime and otherwise moves to
\* the minute before, of, or after the expiry of an issued token.
Tick ==
    /\ Ready
    /\ \E t \in {clock + 1 : c \in {c \in {clock} : c < MaxIssueTime}}
             \cup {e + d : e \in Expiries, d \in {-1, 0, 1}} :
          /\ t > clock
          /\ clock' = t
    /\ resp' = NoResponse
    /\ UNCHANGED <<users, nextUserId, diagrams, nextDiagramId, issued, creator,
                   req>>

\* The response leaves the server.
SendResponse ==
    /\ resp # NoResponse
    /\ resp' = NoResponse
    /\ UNCHANGED <<users, nextUserId, diagrams, nextDiagramId, clock, issued,
                   creator, req>>

Next ==
    \/ \E r \in Reqs, u \in Usernames, e \in Emails :
          RegisterUsername(r, u, e, "pw123")
    \/ \E r \in Reqs : RegisterEmail(r)
    \/ \E r \in Reqs : RegisterCreate(r)
    \/ \E u \in Usernames, p \in Passwords : login_for_access_token(u, p)
    \/ \E c \in Credentials : read_users_me(c)
    \/ \E c \in Credentials : create_diagram(c, "t1", "c1")
    \/ \E c \in Credentials : read_diagrams(c)
    \/ \E c \in Credentials, d \in DiagramIds : read_diagram(c, d)
    \/ \E c \in Credentials, d \in DiagramIds, upd \in DiagramUpdate :
          update_diagram_route(c, d, upd)
    \/ \E c \in Credentials, d \in DiagramIds : delete_diagram_route(c, d)
    \/ \E u \in users : RemoveUser(u)
    \/ Tick
    \/ SendResponse

Spec == Init /\ [][Next]_vars

-----------------------------------------------------------------------------
(***************************************************************************)
(* Properties.                                                             *)
(***************************************************************************)
Exists(diagram_id) == \E d \in diagrams : d.id = diagram_id
OwnerOf(diagram_id) == (CHOOSE d \in diagrams : d.id = diagram_id).user_id
UserNamed(username) == \E u \in users : u.username = username

\* The decision the ownership rule prescribes for principal p and diagram
\* id d: the status, nothing changed and nothing returned unless allowed.
OwnershipRule(p, d) ==
    /\ ~Exists(d) =>
          resp'.status = 404 /\ resp'.body = {} /\ diagrams' = diagrams
    /\ Exists(d) /\ OwnerOf(d) # p.id =>
          resp'.status = 403 /\ resp'.body = {} /\ diagrams' = diagrams
    /\ resp'.status \in {200, 204} <=> (Exists(d) /\ OwnerOf(d) = p.id)

\* C1: read_diagram, update_diagram_route and delete_diagram_route, called by
\* an authenticated principal p for diagram id d, answer 404 when no such
\* diagram exists, 403 (returning, changing and deleting nothing) when it
\* exists with another owner, and are allowed exactly when it exists and
\* p owns it; the same decision in all three.
C1_OwnershipCheck ==
    [][\A c \in Credentials, d \in DiagramIds :
          LET auth == ResolveIdentity(c)
          IN  auth.ok =>
                /\ read_diagram(c, d) => OwnershipRule(auth.user, d)
                /\ delete_diagram_route(c, d) => OwnershipRule(auth.user, d)
                /\ \A upd \in DiagramUpdate :
                      update_diagram_route(c, d, upd) => OwnershipRule(auth.user, d)
      ]_vars

C1_Witness ==
    /\ resp.status = 403
    /\ resp.op = "delete_diagram_route"
    /\ diagrams # {}

\* Some protected route is called with credential c.
ProtectedStep(c) ==
    \/ read_users_me(c)
    \/ create_diagram(c, "t1", "c1")
    \/ read_diagrams(c)
    \/ \E d \in DiagramIds : read_diagram(c, d)
    \/ \E d \in DiagramIds, upd \in DiagramUpdate : update_diagram_route(c, d, upd)
    \/ \E d \in DiagramIds : delete_diagram_route(c, d)

\* The request ended Unauthenticated: nothing stored changed, nothing returned.
EndsUnauthenticated ==
    /\ resp'.status = 401
    /\ resp'.headers = BearerHeader
    /\ resp'.body = {}
    /\ users' = users
    /\ diagrams' = diagrams

Failing == {c \in Credentials : ~ResolveIdentity(c).ok}
Visible(auth) == <<auth.status, auth.detail, auth.headers>>
Causes == {ResolveIdentity(c).cause : c \in Failing}
AuthCauses == {"absent", "Malformed", "InvalidSignature", "Expired",
               "NoSubject", "UserNotFound"}

\* C2 as stated: every cause of resolver failure, a missing bearer token
\* included, gives one and the same status, message and headers.
C2_SameOutcomeForEveryCause ==
    \A c1 \in Failing, c2 \in Failing :
        Visible(ResolveIdentity(c1)) = Visible(ResolveIdentity(c2))

\* C2 amended: every cause of resolver failure gives status 401 and the
\* header WWW-Authenticate: Bearer; a malformed token, a bad signature, an
\* expired token, a token without subject and an unknown subject give one and
\* the same message, and a missing bearer token gives the message
\* "Not authenticated".
C2_UniformFailure ==
    /\ \A c \in Failing :
          LET auth == ResolveIdentity(c)
          IN  /\ auth.status = 401
              /\ auth.headers = BearerHeader
              /\ auth.detail = IF c.form = "absent"
                               THEN "Not authenticated"
                               ELSE "Could not validate credentials"
    /\ resp.cause \in AuthCauses =>
          /\ resp.status = 401
          /\ resp.headers = BearerHeader
          /\ resp.detail = IF resp.cause = "absent"
                           THEN "Not authenticated"
                           ELSE "Could not validate credentials"

C2_Witness ==
    /\ Causes = AuthCauses
    /\ resp.cause = "UserNotFound"

\* C3 as stated: a token issued at t expires at t + TTL; it verifies as its
\* subject while t <= now < t + TTL and fails with Expired once
\* now >= t + TTL, the expiry minute itself included.
C3_ExpiryBoundary ==
    \A i \in issued :
        LET verified == jwt_decode(i.tok)
        IN  /\ i.tok.exp = i.iat + ACCESS_TOKEN_EXPIRE_MINUTES
            /\ (i.iat <= clock /\ clock < i.iat + ACCESS_TOKEN_EXPIRE_MINUTES)
                  => verified.ok /\ verified.sub = i.tok.sub
            /\ clock >= i.iat + ACCESS_TOKEN_EXPIRE_MINUTES
                  => ~verified.ok /\ verified.err = "Expired"

UniqueUsers ==
    \A u1 \in users, u2 \in users :
        (u1.username = u2.username \/ u1.email = u2.email) => u1 = u2

Rejected == resp'.status = 400 /\ users' = users

\* C5 as stated: stored users never share a username or an email, whatever
\* the interleaving of registrations, and a registration whose username or
\* email is taken is rejected with 400 and adds no user.
C5_Registration ==
    [][/\ UniqueUsers'
       /\ \A r \in Reqs :
             /\ \A u \in Usernames, e \in Emails :
                   (RegisterUsername(r, u, e, "pw123") /\ UserNamed(u)) => Rejected
             /\ (RegisterEmail(r) /\ get_user_by_email(req[r].email) # NoUser)
                   => Rejected
             /\ (RegisterCreate(r) /\ UniqueViolation(req[r])) => Rejected
      ]_vars

OwnerIsCreator ==
    \A d \in diagrams :
        /\ <<d.id, d.user_id>> \in creator
        /\ \A c \in creator : c[1] = d.id => c[2] = d.user_id

\* C6: every stored diagram is owned by the principal that created it; no
\* step gives a stored diagram another owner; an update keeps the id and the
\* owner and every field the update did not supply.
C6_OwnerFixed ==
    [][/\ OwnerIsCreator'
       /\ \A old \in diagrams, new \in diagrams' :
             old.id = new.id => old.user_id = new.user_id
       /\ \A c \in Credentials, d \in DiagramIds, upd \in DiagramUpdate :
             (update_diagram_route(c, d, upd) /\ Exists(d)) =>
                 \E new \in diagrams' :
                     /\ new.id = d
                     /\ new.user_id = OwnerOf(d)
                     /\ \A key \in {"title", "content"} :
                           new[key] \in {get_diagram(d)[key], upd[key]} \ {Unset}
                     /\ \A key \in {"title", "content"} :
                           upd[key] = Unset => new[key] = get_diagram(d)[key]
      ]_vars

C6_Witness ==
    \E d \in diagrams :
        /\ d.title = "t2"
        /\ d.content = "c1"
        /\ <<d.id, d.user_id>> \in creator
        /\ resp.op = "update_diagram_route"

\* C7: a token stays valid when later tokens are issued: as long as the
\* clock is before its issuance time plus TTL and its subject is a stored
\* user, it resolves to that user.
C7_NoRevocation ==
    \A i \in issued :
        (clock < i.iat + ACCESS_TOKEN_EXPIRE_MINUTES /\ UserNamed(i.tok.sub)) =>
            LET auth == ResolveIdentity(i.tok)
            IN  auth.ok /\ auth.user.username = i.tok.sub

C7_Witness ==
    /\ \E i \in issued, j \in issued :
          /\ i.tok.sub = j.tok.sub
          /\ i.iat < j.iat
          /\ clock < i.iat + ACCESS_TOKEN_EXPIRE_MINUTES
          /\ clock >= j.iat
          /\ UserNamed(i.tok.sub)
    /\ resp.op = "read_users_me"
    /\ resp.status = 200

\* C8: a protected route whose identity resolver fails ends Unauthenticated:
\* no user or diagram changes and no data is returned.
C8_ResolverFirst ==
    [][\A c \in Credentials :
          (~ResolveIdentity(c).ok /\ ProtectedStep(c)) => EndsUnauthenticated
      ]_vars

C8_Witness ==
    /\ resp.status = 401
    /\ resp.op = "delete_diagram_route"
    /\ diagrams # {}

\* C9: login issues a token exactly when the username is stored and the
\* password is the one its hash was made from; the token's subject is that
\* username; otherwise the answer is one and the same 401, no token is
\* issued and nothing stored changes.
C9_Login ==
    [][\A u \in Usernames, p \in Passwords :
          login_for_access_token(u, p) =>
              IF \E user \in users :
                    user.username = u /\ user.password_hash = get_password_hash(p)
              THEN /\ resp'.status = 200
                   /\ \E t \in resp'.body :
                         /\ resp'.body = {t}
                         /\ t.sub = u
                         /\ \E i \in issued' : i.tok = t
              ELSE /\ resp' = [op |-> "login_for_access_token", status |-> 401,
                               detail |-> "Incorrect username or password",
                               headers |-> BearerHeader, body |-> {},
                               cause |-> None]
                   /\ issued' = issued
                   /\ users' = users
                   /\ diagrams' = diagrams
      ]_vars

C9_Witness ==
    /\ resp.op = "login_for_access_token"
    /\ resp.status = 401
    /\ \A u \in Usernames : UserNamed(u)

\* C10 as stated: whenever a token resolves, the resolved principal has the
\* id of a user who logged in to obtain that token.
C10_BoundToAccount ==
    \A g \in issued :
        LET auth == ResolveIdentity(g.tok)
        IN  auth.ok => \E i \in issued : i.tok = g.tok /\ i.uid = auth.user.id

\* C10 amended: whenever a token resolves, the resolved principal is the
\* stored user whose username is the token's subject (the username of the
\* user who logged in), and it has that user's id as long as that user is
\* still stored.
C10_BoundToUsername ==
    \A g \in issued :
        LET auth == ResolveIdentity(g.tok)
        IN  auth.ok =>
              /\ auth.user \in users
              /\ auth.user.username = g.tok.sub
              /\ (\E u \in users : u.id = g.uid) => auth.user.id = g.uid

C10_Witness ==
    /\ resp.op = "read_users_me"
    /\ resp.status = 200
    /\ issued # {}
    /\ \A x \in resp.body : \A i \in issued : i.uid # x.id

=============================================================================
